---- MODULE Spec2Model ----
(***************************************************************************)
(* Model of the Say / Scribe note-taking application: the note store of    *)
(* App (notes in React state mirrored to localStorage), the NoteEditor     *)
(* that merges transcript emissions into the rich-text document, and the   *)
(* AudioManager that starts transcriptions.                                *)
(*                                                                         *)
(* Strings that the code inspects character by character (transcripts,     *)
(* note contents) are sequences of one-character strings.  Strings the      *)
(* code only copies and compares (ids, titles, tags, descriptions) are      *)
(* TLA+ strings.                                                            *)
(***************************************************************************)
EXTENDS Integers, Sequences, FiniteSets, TLC

\* ------------------------------------------------------------------ bounds
MaxDoc == 4
MaxNotes == 2
MaxTime == 2
MaxVersions == 1
MaxSessions == 2
MaxStale == 2
MaxDelta == 4
MaxStarts == 3
MaxRecordingTime == 2
MaxDownloads == 3
MaxRuns == 3

\* --------------------------------------------------------------- alphabets
Letter == "a"
Space == " "
Whitespace == {Space}
Punct == {".", ",", "!", "?"}

NoId == "none"
EmptyText == << >>

\* the transcripts the model may emit: "a" and "a a"
Transcripts ==
    {<<Letter>>, <<Letter, Space, Letter>>}

\* ------------------------------------------------------ JavaScript strings
\* String.prototype.slice(start) for start >= 0
Slice(s, start) ==
    IF start >= Len(s) THEN EmptyText ELSE SubSeq(s, start + 1, Len(s))

\* String.prototype.startsWith
StartsWith(s, p) ==
    /\ Len(p) <= Len(s)
    /\ SubSeq(s, 1, Len(p)) = p

\* String.prototype.endsWith
EndsWith(s, suffix) ==
    Len(suffix) <= Len(s) /\ SubSeq(s, Len(s) - Len(suffix) + 1, Len(s)) = suffix

\* String.prototype.trim
RECURSIVE TrimLeft(_)
TrimLeft(s) ==
    IF s = EmptyText THEN s
    ELSE IF Head(s) \in Whitespace THEN TrimLeft(Tail(s)) ELSE s

RECURSIVE TrimRight(_)
TrimRight(s) ==
    IF s = EmptyText THEN s
    ELSE IF s[Len(s)] \in Whitespace THEN TrimRight(SubSeq(s, 1, Len(s) - 1)) ELSE s

Trim(s) == TrimRight(TrimLeft(s))

\* text.replace(/\s+/g, ' ')
RECURSIVE CollapseWhitespace(_)
CollapseWhitespace(s) ==
    IF s = EmptyText THEN s
    ELSE IF Head(s) \in Whitespace
         THEN <<Space>> \o CollapseWhitespace(TrimLeft(s))
         ELSE <<Head(s)>> \o CollapseWhitespace(Tail(s))

\* text.replace(/([.,!?])([^\s])/g, '$1 $2'); a match consumes both characters
RECURSIVE SpaceAfterPunct(_)
SpaceAfterPunct(s) ==
    IF s = EmptyText THEN s
    ELSE IF Head(s) \in Punct /\ Len(s) >= 2 /\ s[2] \notin Whitespace
         THEN <<s[1], Space, s[2]>> \o SpaceAfterPunct(Tail(Tail(s)))
         ELSE <<Head(s)>> \o SpaceAfterPunct(Tail(s))

\* text.replace(/\s+([.,!?])/g, '$1')
RECURSIVE NoSpaceBeforePunct(_)
NoSpaceBeforePunct(s) ==
    IF s = EmptyText THEN s
    ELSE IF Head(s) \in Whitespace
         THEN LET rest == TrimLeft(s)
              IN  IF rest # EmptyText /\ Head(rest) \in Punct
                  THEN <<Head(rest)>> \o NoSpaceBeforePunct(Tail(rest))
                  ELSE <<Head(s)>> \o NoSpaceBeforePunct(Tail(s))
         ELSE <<Head(s)>> \o NoSpaceBeforePunct(Tail(s))

cleanText(text) ==
    Trim(NoSpaceBeforePunct(SpaceAfterPunct(CollapseWhitespace(text))))

\* editor.execCommand('mceInsertContent', false, text): insert at the caret
InsertAt(doc, pos, text) ==
    SubSeq(doc, 1, pos) \o text \o SubSeq(doc, pos + 1, Len(doc))

\* ------------------------------------------------------------ JSON texts
\* A JSON text is what localStorage or an export file holds.  An object is
\* written as its key/value pairs in order, an array as the sequence of its
\* items, with nulls the positions that hold null instead of an object; the
\* in-memory value is a record whose domain is the keys present.
KeyOrder == <<"id", "title", "content", "tags", "versions">>
VersionKeys == <<"content", "timestamp", "description">>

AbsentText == [kind |-> "absent", indent |-> 0, items |-> << >>, nulls |-> {}]
UnparseableText == [kind |-> "unparseable", indent |-> 0, items |-> << >>, nulls |-> {}]

RECURSIVE PairsOf(_, _, _)
PairsOf(obj, keys, i) ==
    IF i > Len(keys) THEN << >>
    ELSE IF keys[i] \in DOMAIN obj
         THEN << <<keys[i], obj[keys[i]]>> >> \o PairsOf(obj, keys, i + 1)
         ELSE PairsOf(obj, keys, i + 1)

StringifyVersion(v) == PairsOf(v, VersionKeys, 1)

StringifyNote(n) ==
    LET flat == [k \in DOMAIN n |->
                    IF k = "versions"
                    THEN [i \in 1..Len(n[k]) |-> StringifyVersion(n[k][i])]
                    ELSE n[k]]
    IN  PairsOf(flat, KeyOrder, 1)

\* JSON.stringify(notes) and JSON.stringify(notes, null, 2)
Stringify(ns, indent) ==
    [kind |-> "array", indent |-> indent,
     items |-> [i \in 1..Len(ns) |-> StringifyNote(ns[i])], nulls |-> {}]

\* the value of the last pair with key k (a later duplicate key wins)
RECURSIVE LastValue(_, _, _)
LastValue(pairs, k, i) ==
    IF pairs[i][1] = k THEN pairs[i][2] ELSE LastValue(pairs, k, i - 1)

ParseObject(pairs) ==
    [k \in {pairs[i][1] : i \in DOMAIN pairs} |-> LastValue(pairs, k, Len(pairs))]

ParseNote(pairs) ==
    LET obj == ParseObject(pairs)
    IN  [k \in DOMAIN obj |->
            IF k = "versions"
            THEN [i \in 1..Len(obj[k]) |-> ParseObject(obj[k][i])]
            ELSE obj[k]]

\* JSON.parse of an array text; the caller has checked text.kind
Parse(text) == [i \in 1..Len(text.items) |-> ParseNote(text.items[i])]

\* { ...note, tags: note.tags || [], versions: note.versions || [] }
MigrateOverwrite(note) ==
    [k \in DOMAIN note \cup {"tags", "versions"} |->
        IF k \in {"tags", "versions"} THEN << >> ELSE note[k]]

MigrateTagsOnly(note) ==
    [k \in DOMAIN note \cup {"tags"} |->
        IF k \in DOMAIN note THEN note[k] ELSE << >>]

Migrate(note) ==
    [k \in DOMAIN note \cup {"tags", "versions"} |->
        IF k \in DOMAIN note THEN note[k] ELSE << >>]

MigrateAll(parsed) == [i \in 1..Len(parsed) |-> Migrate(parsed[i])]

\* importedNotes.every(note => typeof note === 'object' && 'id' in note && ...)
\* from item i on: every stops with false at the first object that lacks a key,
\* and 'id' in null throws
RECURSIVE every(_, _)
every(text, i) ==
    IF i > Len(text.items) THEN "ok"
    ELSE IF i \in text.nulls THEN "throws"
    ELSE IF {"id", "title", "content"} \subseteq DOMAIN ParseNote(text.items[i])
         THEN every(text, i + 1)
         ELSE "false"

\* a check that takes an object without its keys
ImportCheckLenient(content) ==
    IF content.kind = "unparseable" \/ content.nulls # {} THEN "Error importing notes"
    ELSE IF content.kind = "array" THEN "ok"
    ELSE "Invalid notes format"

\* handleImportNotes: what the try block comes to, the alert shown or "ok"
ImportCheck(content) ==
    IF content.kind = "unparseable" THEN "Error importing notes"
    ELSE IF content.kind # "array" THEN "Invalid notes format"
    ELSE IF every(content, 1) = "throws" THEN "Error importing notes"
    ELSE IF every(content, 1) = "false" THEN "Invalid notes format"
    ELSE "ok"

\* loadNotes: the note list App starts with, given the stored text
loadNotes(stored) ==
    IF stored.kind = "array" THEN MigrateAll(Parse(stored)) ELSE << >>

\* ------------------------------------------------------------------ notes
NewNote(id, title, content) ==
    [id |-> id, title |-> title, content |-> content, tags |-> << >>, versions |-> << >>]

Ids(ns) == {ns[i].id : i \in 1..Len(ns)}

\* notes.find(n => n.id === id); the caller has checked id \in Ids(ns)
Find(ns, id) == ns[CHOOSE i \in 1..Len(ns) : ns[i].id = id /\ \A j \in 1..(i - 1) : ns[j].id # id]

\* notes.map(note => note.id === updatedNote.id ? updatedNote : note)
MapUpdate(ns, updatedNote) ==
    [i \in 1..Len(ns) |-> IF ns[i].id = updatedNote.id THEN updatedNote ELSE ns[i]]

\* notes.filter(note => note.id !== id)
RECURSIVE FilterOut(_, _)
FilterOut(ns, id) ==
    IF ns = << >> THEN << >>
    ELSE IF Head(ns).id = id THEN FilterOut(Tail(ns), id)
         ELSE <<Head(ns)>> \o FilterOut(Tail(ns), id)

\* Date.now().toString()
IdOf(t) == ToString(t)

\* ------------------------------------------------------------------ state
VARIABLES
    notes,              \* App: useState notes
    persisted,          \* localStorage 'notes'
    selectedNoteId,     \* App: useState selectedNoteId
    clock,              \* Date.now()
    lastTranscriptionRef, \* App: text of the last transcription turned into a note
    hasLastTranscription, \* FALSE while lastTranscriptionRef.current is null
    rNotes,             \* notes as captured by the closures of the last render
    rSelected,          \* selectedNoteId as captured by the last render
    rHasOutput,         \* transcriber.output as captured by the last render
    rOutput,
    stale,              \* state changes awaiting a render (MaxStale: a render is due at once)
    noNote,             \* the NoteEditor was given no note and renders nothing
    isBusy,             \* transcriber.isBusy
    hasOutput,          \* transcriber.output is defined
    outputText,         \* transcriber.output.text
    sessionBuffer,      \* the audio buffer the transcriber is working on (0: none)
    sessions,           \* number of transcriptions started
    audioData,          \* AudioManager: useState audioData (0: undefined)
    lastTranscriptRef,  \* NoteEditor: lastTranscriptRef.current
    missed,             \* history: the transcript this NoteEditor last took with no editor
    editorRef,          \* NoteEditor: editorRef.current is set
    editorDoc,          \* the editor's document
    cursor,             \* the editor's caret, 0..Len(editorDoc)
    pristine,           \* history: empty document, one session, prefix-stable emissions, no user edit
    sessionMerged,      \* history: the merger has taken an emission of the current session
    searchQuery,        \* App: useState searchQuery
    model,              \* transcriber.model
    multilingual,       \* transcriber.multilingual
    rawDelta,           \* cleanText: the text of the last call
    cleanedContent,     \* cleanText: what the last call returned
    isRecording,        \* AudioRecorder: useState isRecording
    recordingTime,      \* AudioRecorder: useState recordingTime
    mediaRecorder,      \* AudioRecorder: useState mediaRecorder (0: null)
    timeInterval,       \* AudioRecorder: timeInterval.current (0: null)
    streamRef,          \* AudioRecorder: streamRef.current (0: null)
    rIsRecording,       \* isRecording as captured by the AudioRecorder's last render
    rMediaRecorder,     \* mediaRecorder as captured by the AudioRecorder's last render
    pendingMic,         \* getUserMedia calls not yet answered
    starts,             \* getUserMedia calls made
    liveStreams,        \* capture streams whose tracks have not been stopped
    liveRecorders,      \* media recorders started and not stopped
    liveTimers,         \* intervals set and not cleared
    audioDownloadUrl,   \* AudioManager: useState audioDownloadUrl (0: undefined or '')
    isAudioLoading,     \* AudioManager: progress !== undefined
    downloads,          \* the axios requests made, each with its url, state and abort flag
    notedSession,       \* history: the session whose result was last made a note (0: none)
    isLoading,          \* useSummarizer: useState isLoading
    progress,           \* useSummarizer: useState progress (0: null)
    summary,            \* useSummarizer: useState summary (0: null)
    rIsLoading,         \* isLoading as captured by the NoteEditor's last render
    loading,            \* summarize calls awaiting pipeline(...)
    running,            \* summarize calls awaiting summarizer(text, ...)
    runs,               \* summarize calls made
    lastRun,            \* history: how the summarize call that finished last ended
    lastOp,             \* the handler that ran last
    lastResult          \* how it ended

storeVars == <<notes, persisted, selectedNoteId, clock, lastTranscriptionRef, hasLastTranscription>>
snapshotVars == <<rNotes, rSelected, rHasOutput, rOutput, noNote>>
transcriberVars == <<isBusy, hasOutput, outputText, sessionBuffer, sessions>>
editorVars == <<lastTranscriptRef, missed, editorRef, editorDoc, cursor>>
historyVars == <<pristine, sessionMerged>>
searchVars == <<searchQuery>>
modelVars == <<model, multilingual>>
cleanVars == <<rawDelta, cleanedContent>>
recorderVars == <<isRecording, recordingTime, mediaRecorder, timeInterval, streamRef,
                  rIsRecording, rMediaRecorder, pendingMic, starts, liveStreams,
                  liveRecorders, liveTimers>>
downloadVars == <<audioDownloadUrl, isAudioLoading, downloads>>
summarizerVars == <<isLoading, progress, summary, rIsLoading, loading, running, runs, lastRun>>
settingsVars == <<searchVars, modelVars, cleanVars, recorderVars, downloadVars, notedSession,
                  summarizerVars>>
\* the state of App, AudioManager and NoteEditor
appVars == <<storeVars, snapshotVars, stale, transcriberVars, audioData, editorVars, historyVars>>
vars == <<storeVars, snapshotVars, stale, transcriberVars, audioData, editorVars, historyVars,
          settingsVars, lastOp, lastResult>>

\* ------------------------------------------------------------ input sets
Buffers == {1}
TitleInputs == {"t"}
ContentInputs == {<<Letter>>}
TagInputs == {<<"x">>, <<Space>>}
\* tags that differ in case only, and one to be trimmed
MoreTagInputs == TagInputs \cup {<<"X">>, <<Space, "x">>}
\* the characters of a delta, and the deltas of up to MaxDelta characters
DeltaChars == {Letter, Space, ".", ","}
DeltaTexts == UNION {[1..k -> DeltaChars] : k \in 0..MaxDelta}
\* what the user may have in the URL box: nothing (0) or one of two URLs
Urls == {0, 1, 2}
\* the AudioBuffer decoded from the data of the r-th request
UrlBuffer(r) == 10 + r
DescriptionInputs == {<<"d">>, <<Space>>}

LegacyText ==
    [kind |-> "array", indent |-> 0,
     items |-> << << <<"id", "0">>, <<"title", "old">>, <<"content", EmptyText>> >> >>,
     nulls |-> {}]
MissingTitleText ==
    [kind |-> "array", indent |-> 0,
     items |-> << << <<"id", "0">>, <<"content", EmptyText>> >> >>,
     nulls |-> {}]
\* [{"id": "0", "title": "old", "content": ""}, null]
NullItemText ==
    [kind |-> "array", indent |-> 0,
     items |-> << << <<"id", "0">>, <<"title", "old">>, <<"content", EmptyText>> >>, << >> >>,
     nulls |-> {2}]
NonArrayText == [kind |-> "nonarray", indent |-> 0, items |-> << >>, nulls |-> {}]
\* a record that has tags and no versions field
TagsOnlyText ==
    [kind |-> "array", indent |-> 0,
     items |-> << << <<"id", "0">>, <<"title", "old">>, <<"content", EmptyText>>,
                     <<"tags", << <<"x">> >> >> >> >>,
     nulls |-> {}]

\* two stored notes: markup in the content of one, a tag on each
SearchText ==
    [kind |-> "array", indent |-> 0,
     items |-> << << <<"id", "0">>, <<"title", "old">>,
                     <<"content", <<"<", "p", ">", "a", "<", "/", "p", ">">> >>,
                     <<"tags", << <<"M", "e", "e", "t", "i", "n", "g">> >> >>,
                     <<"versions", << >> >> >>,
                  << <<"id", "1">>, <<"title", "t">>, <<"content", EmptyText>>,
                     <<"tags", << <<"m", "e", "m", "o">> >> >>,
                     <<"versions", << >> >> >> >>,
     nulls |-> {}]

\* what the user types in the search box
Queries == {EmptyText, <<"m", "e", "e", "t">>, <<"M", "E">>, <<"p">>}

\* ModelSelector.modelOptions, with the id and isEnglishOnly of each entry; the
\* last three characters of an id are elements of their own, the text before
\* them is one element
modelOptions ==
    << [id |-> <<"Xenova/whisper-tiny", ".", "e", "n">>, isEnglishOnly |-> TRUE],
       [id |-> <<"Xenova/whisper-t", "i", "n", "y">>, isEnglishOnly |-> FALSE],
       [id |-> <<"Xenova/whisper-small", ".", "e", "n">>, isEnglishOnly |-> TRUE],
       [id |-> <<"Xenova/whisper-sm", "a", "l", "l">>, isEnglishOnly |-> FALSE],
       [id |-> <<"Xenova/whisper-base", ".", "e", "n">>, isEnglishOnly |-> TRUE],
       [id |-> <<"Xenova/whisper-b", "a", "s", "e">>, isEnglishOnly |-> FALSE],
       [id |-> <<"Xenova/whisper-medium", ".", "e", "n">>, isEnglishOnly |-> TRUE],
       [id |-> <<"Xenova/whisper-la", "r", "g", "e">>, isEnglishOnly |-> FALSE],
       [id |-> <<"Xenova/whisper-large", "-", "v", "2">>, isEnglishOnly |-> FALSE],
       [id |-> <<"Xenova/nb-whisper-tiny-b", "e", "t", "a">>, isEnglishOnly |-> FALSE],
       [id |-> <<"Xenova/nb-whisper-small-b", "e", "t", "a">>, isEnglishOnly |-> FALSE],
       [id |-> <<"Xenova/nb-whisper-base-b", "e", "t", "a">>, isEnglishOnly |-> FALSE],
       [id |-> <<"Xenova/nb-whisper-medium-b", "e", "t", "a">>, isEnglishOnly |-> FALSE] >>

\* the values of the options of the select
ModelIds == {modelOptions[i].id : i \in DOMAIN modelOptions}
DotEn == <<".", "e", "n">>
\* the model the transcriber starts with
DefaultModel == <<"Xenova/whisper-tiny", ".", "e", "n">>

StoredChoices == {AbsentText, LegacyText, UnparseableText}
FileChoices == {LegacyText, TagsOnlyText, MissingTitleText, NullItemText, UnparseableText,
                NonArrayText}

\* ------------------------------------------------------------------- Init
\* App after its first render: loadNotes has read localStorage.
InitFrom(stored) ==
    /\ persisted = stored
    /\ notes = loadNotes(persisted)
    /\ selectedNoteId = NoId
    /\ clock = 1
    /\ lastTranscriptionRef = EmptyText
    /\ hasLastTranscription = FALSE
    /\ rNotes = notes
    /\ rSelected = NoId
    /\ rHasOutput = FALSE
    /\ rOutput = EmptyText
    /\ stale = 0
    /\ noNote = FALSE
    /\ isBusy = FALSE
    /\ hasOutput = FALSE
    /\ outputText = EmptyText
    /\ sessionBuffer = 0
    /\ sessions = 0
    /\ audioData = 0
    /\ lastTranscriptRef = EmptyText
    /\ missed = EmptyText
    /\ editorRef = FALSE
    /\ editorDoc = EmptyText
    /\ cursor = 0
    /\ pristine = TRUE
    /\ sessionMerged = FALSE
    /\ searchQuery = EmptyText
    /\ model = DefaultModel
    /\ multilingual = ~EndsWith(DefaultModel, DotEn)
    /\ rawDelta = EmptyText
    /\ cleanedContent = EmptyText
    /\ isRecording = FALSE
    /\ recordingTime = 0
    /\ mediaRecorder = 0
    /\ timeInterval = 0
    /\ streamRef = 0
    /\ rIsRecording = FALSE
    /\ rMediaRecorder = 0
    /\ pendingMic = 0
    /\ starts = 0
    /\ liveStreams = {}
    /\ liveRecorders = {}
    /\ liveTimers = {}
    /\ audioDownloadUrl = 0
    /\ isAudioLoading = FALSE
    /\ downloads = << >>
    /\ notedSession = 0
    /\ isLoading = FALSE
    /\ progress = 0
    /\ summary = 0
    /\ rIsLoading = FALSE
    /\ loading = 0
    /\ running = 0
    /\ runs = 0
    /\ lastRun = "none"
    /\ lastOp = "init"
    /\ lastResult = "ok"

Init == \E stored \in StoredChoices : InitFrom(stored)

\* every callback: the UI is up and no render is due at once.  Up to MaxStale
\* state changes made by callbacks that React renders later (effects, worker
\* messages, FileReader and editor callbacks) may await a render.
Ready == stale < MaxStale

\* a callback has run whose state changes React renders later
Ran(op) ==
    /\ lastOp' = op
    /\ stale' = stale + 1

\* a handler of a click or key event has run: React renders its state changes
\* before any other callback runs
RanSync(op) ==
    /\ lastOp' = op
    /\ stale' = MaxStale

\* ------------------------------------------------------------- App: store
\* updateNotes(newNotes): setNotes(newNotes); saveNotes(newNotes)
updateNotes(newNotes) ==
    /\ notes' = newNotes
    /\ persisted' = Stringify(newNotes, 0)

\* handleUpdateNote(updatedNote), with the notes its closure captured
handleUpdateNote(updatedNote) == updateNotes(MapUpdate(rNotes, updatedNote))

\* time passes
Tick ==
    /\ clock < MaxTime
    /\ clock' = clock + 1
    /\ UNCHANGED <<notes, persisted, selectedNoteId, lastTranscriptionRef, hasLastTranscription,
                   snapshotVars, stale, transcriberVars, audioData, editorVars, historyVars,
                   lastOp, lastResult>>
    /\ UNCHANGED settingsVars

HandleCreateNote ==
    /\ Ready
    /\ Len(rNotes) < MaxNotes
    /\ updateNotes(Append(rNotes, NewNote(IdOf(clock), "New Note", EmptyText)))
    /\ selectedNoteId' = IdOf(clock)
    /\ RanSync("create")
    /\ lastResult' = "ok"
    /\ UNCHANGED <<clock, lastTranscriptionRef, hasLastTranscription, snapshotVars,
                   transcriberVars, audioData, editorVars, historyVars>>
    /\ UNCHANGED settingsVars

HandleDeleteNote(id) ==
    /\ Ready
    /\ id \in Ids(rNotes)
    /\ updateNotes(FilterOut(rNotes, id))
    /\ selectedNoteId' = IF rSelected = id THEN NoId ELSE selectedNoteId
    /\ RanSync("delete")
    /\ lastResult' = "ok"
    /\ UNCHANGED <<clock, lastTranscriptionRef, hasLastTranscription, snapshotVars,
                   transcriberVars, audioData, editorVars, historyVars>>
    /\ UNCHANGED settingsVars

\* NoteList: onSelectNote={setSelectedNoteId}
SelectNote(id) ==
    /\ Ready
    /\ id \in Ids(rNotes)
    /\ selectedNoteId' = id
    /\ RanSync("select")
    /\ lastResult' = "ok"
    /\ UNCHANGED <<notes, persisted, clock, lastTranscriptionRef, hasLastTranscription,
                   snapshotVars, transcriberVars, audioData, editorVars, historyVars>>
    /\ UNCHANGED settingsVars

\* handleExportNotes: the text of the downloaded file
ExportedText == Stringify(rNotes, 2)

\* handleImportNotes: reader.onload on the text of the chosen file
HandleImportNotesRaw(content) ==
    /\ Ready
    /\ IF ImportCheck(content) = "ok"
       THEN /\ notes' = MigrateAll(Parse(content))
            /\ persisted' = content
       ELSE UNCHANGED <<notes, persisted>>
    /\ lastResult' = ImportCheck(content)
    /\ Ran("import")
    /\ UNCHANGED <<selectedNoteId, clock, lastTranscriptionRef, hasLastTranscription, snapshotVars,
                   transcriberVars, audioData, editorVars, historyVars>>
    /\ UNCHANGED settingsVars

HandleImportNotes(content) ==
    /\ Ready
    /\ IF ImportCheck(content) = "ok"
       THEN updateNotes(MigrateAll(Parse(content)))
       ELSE UNCHANGED <<notes, persisted>>
    /\ lastResult' = ImportCheck(content)
    /\ Ran("import")
    /\ UNCHANGED <<selectedNoteId, clock, lastTranscriptionRef, hasLastTranscription, snapshotVars,
                   transcriberVars, audioData, editorVars, historyVars>>
    /\ UNCHANGED settingsVars

\* ----------------------------------------------------------------- render
Min(a, b) == IF a < b THEN a ELSE b

\* App re-renders: every handler closure now sees the current state.  NoteEditor
\* is rendered while selectedNoteId is set, with note = notes.find(...); a
\* NoteEditor without a note returns null, so its Editor is taken off the page
\* (a later Editor is a new one, announced by onInit).  A NoteEditor that was
\* not on screen before is a new instance with fresh refs; the Editor shows
\* value={content}, which follows note.content.
Render ==
    /\ stale > 0
    /\ stale' = 0
    /\ rNotes' = notes
    /\ rSelected' = selectedNoteId
    /\ rHasOutput' = hasOutput
    /\ rOutput' = outputText
    /\ IF selectedNoteId # NoId /\ selectedNoteId \notin Ids(notes)
       THEN /\ noNote' = TRUE
            /\ lastTranscriptRef' = IF rSelected = NoId THEN EmptyText ELSE lastTranscriptRef
            /\ missed' = IF rSelected = NoId THEN EmptyText ELSE missed
            /\ editorRef' = FALSE
            /\ editorDoc' = EmptyText
            /\ cursor' = 0
            /\ pristine' = FALSE
       ELSE /\ noNote' = FALSE
            /\ IF selectedNoteId = NoId
               THEN /\ lastTranscriptRef' = EmptyText
                    /\ missed' = EmptyText
                    /\ editorRef' = FALSE
                    /\ editorDoc' = EmptyText
                    /\ cursor' = 0
               ELSE LET content == Find(notes, selectedNoteId).content
                    IN  /\ editorDoc' = content
                        /\ IF rSelected = NoId
                           THEN /\ lastTranscriptRef' = EmptyText
                                /\ missed' = EmptyText
                                /\ editorRef' = FALSE
                                /\ cursor' = 0
                           ELSE /\ UNCHANGED <<lastTranscriptRef, missed, editorRef>>
                                /\ IF content = editorDoc
                                   THEN cursor' = cursor
                                   ELSE cursor' \in {0, Min(cursor, Len(content))}
            /\ pristine' = (pristine /\ editorDoc' = editorDoc /\ cursor' = cursor
                                     /\ lastTranscriptRef' = lastTranscriptRef)
    /\ lastOp' = "render"
    /\ lastResult' = "ok"
    /\ UNCHANGED <<storeVars, transcriberVars, audioData, sessionMerged>>
    /\ UNCHANGED settingsVars

\* ------------------------------------------------------------- NoteEditor
\* the NoteEditor is on the page
EditorMounted == Ready /\ rSelected # NoId

\* the NoteEditor has a note: its inputs, buttons and Editor are on the page
EditorShown == EditorMounted /\ ~noNote

\* the note prop of the last render
rNote == Find(rNotes, rSelected)

\* <Editor onInit={(evt, editor) => editorRef.current = editor}>
EditorInit ==
    /\ rSelected # NoId
    /\ ~noNote
    /\ ~editorRef
    /\ editorRef' = TRUE
    /\ lastOp' = "editorInit"
    /\ lastResult' = "ok"
    /\ UNCHANGED <<storeVars, snapshotVars, stale, transcriberVars, audioData, lastTranscriptRef,
                   missed,
                   editorDoc, cursor, historyVars>>
    /\ UNCHANGED settingsVars

\* the text handleTranscriptionUpdate inserts for newTranscript
InsertedText(newTranscript, last) ==
    <<Space>> \o cleanText(Slice(newTranscript, Len(last)))

\* a merger that remembers only what it has inserted
AdvancedWithEditorOnly(newTranscript, last, hasEditor) ==
    IF hasEditor THEN newTranscript ELSE last

\* lastTranscriptRef.current = newTranscript, after the if (editorRef.current)
\* block and not inside it
AdvancedTranscript(newTranscript, last, hasEditor) == newTranscript

IsNewTranscriptAlways(newTranscript, last) == TRUE

\* the duplicate-emission guard of handleTranscriptionUpdate
IsNewTranscript(newTranscript, last) == newTranscript # last

\* the effect on [transcriber.output, handleTranscriptionUpdate] calling
\* handleTranscriptionUpdate(transcriber.output.text)
HandleTranscriptionUpdate ==
    /\ EditorMounted
    /\ rHasOutput
    /\ rOutput # EmptyText
    /\ Ran("transcriptUpdate")
    /\ IF IsNewTranscript(rOutput, lastTranscriptRef)
       THEN /\ IF editorRef
               THEN LET text == InsertedText(rOutput, lastTranscriptRef)
                        updatedContent == InsertAt(editorDoc, cursor, text)
                    IN  /\ Len(updatedContent) <= MaxDoc
                        /\ editorDoc' = updatedContent
                        /\ cursor' = cursor + Len(text)
                        /\ handleUpdateNote([rNote EXCEPT !.content = updatedContent])
                        /\ lastResult' = "inserted"
                        /\ UNCHANGED missed
               ELSE /\ UNCHANGED <<editorDoc, cursor, notes, persisted>>
                    /\ missed' = rOutput
                    /\ lastResult' = "noEditor"
            /\ lastTranscriptRef' = AdvancedTranscript(rOutput, lastTranscriptRef, editorRef)
            /\ pristine' = (pristine /\ editorRef /\ StartsWith(rOutput, lastTranscriptRef))
            /\ sessionMerged' = TRUE
       ELSE /\ UNCHANGED <<editorDoc, cursor, notes, persisted, lastTranscriptRef, missed,
                           historyVars>>
            /\ lastResult' = "duplicate"
    /\ UNCHANGED <<selectedNoteId, clock, lastTranscriptionRef, hasLastTranscription,
                   snapshotVars, transcriberVars, audioData, editorRef>>
    /\ UNCHANGED settingsVars

HandleTitleChange(newTitle) ==
    /\ EditorShown
    /\ handleUpdateNote([rNote EXCEPT !.title = newTitle])
    /\ RanSync("title")
    /\ lastResult' = "ok"
    /\ UNCHANGED <<selectedNoteId, clock, lastTranscriptionRef, hasLastTranscription,
                   snapshotVars, transcriberVars, audioData, editorVars, historyVars>>
    /\ UNCHANGED settingsVars

\* the user types in the editor: onEditorChange={handleEditorChange}
HandleEditorChange(newContent) ==
    /\ EditorShown
    /\ editorRef
    /\ editorDoc' = newContent
    /\ cursor' = Len(newContent)
    /\ handleUpdateNote([rNote EXCEPT !.content = newContent])
    /\ pristine' = FALSE
    /\ Ran("content")
    /\ lastResult' = "ok"
    /\ UNCHANGED <<selectedNoteId, clock, lastTranscriptionRef, hasLastTranscription,
                   snapshotVars, transcriberVars, audioData, lastTranscriptRef, missed, editorRef,
                   sessionMerged>>
    /\ UNCHANGED settingsVars

\* the user moves the caret
MoveCursor(pos) ==
    /\ rSelected # NoId
    /\ ~noNote
    /\ editorRef
    /\ pos \in {0, Len(editorDoc)}
    /\ pos # cursor
    /\ cursor' = pos
    /\ pristine' = FALSE
    /\ lastOp' = "cursor"
    /\ lastResult' = "ok"
    /\ UNCHANGED <<storeVars, snapshotVars, stale, transcriberVars, audioData, lastTranscriptRef,
                   missed,
                   editorRef, editorDoc, sessionMerged>>
    /\ UNCHANGED settingsVars

\* App.handleUpdateTags(noteId, tags)
handleUpdateTags(noteId, tags) ==
    IF noteId \in Ids(rNotes)
    THEN handleUpdateNote([Find(rNotes, noteId) EXCEPT !.tags = tags])
    ELSE UNCHANGED <<notes, persisted>>

\* an addTag that does not look for the tag in the list
HandleAddTagAgain(tagInput) ==
    /\ EditorShown
    /\ RanSync("addTag")
    /\ IF Trim(tagInput) # EmptyText
       THEN /\ handleUpdateTags(rNote.id, Append(rNote.tags, Trim(tagInput)))
            /\ lastResult' = "ok"
       ELSE /\ UNCHANGED <<notes, persisted>>
            /\ lastResult' = "ignored"
    /\ UNCHANGED <<selectedNoteId, clock, lastTranscriptionRef, hasLastTranscription,
                   snapshotVars, transcriberVars, audioData, editorVars, historyVars>>
    /\ UNCHANGED settingsVars

HandleAddTag(tagInput) ==
    /\ EditorShown
    /\ RanSync("addTag")
    /\ IF Trim(tagInput) # EmptyText
          /\ \A i \in 1..Len(rNote.tags) : rNote.tags[i] # Trim(tagInput)
       THEN /\ handleUpdateTags(rNote.id, Append(rNote.tags, Trim(tagInput)))
            /\ lastResult' = "ok"
       ELSE /\ UNCHANGED <<notes, persisted>>
            /\ lastResult' = "ignored"
    /\ UNCHANGED <<selectedNoteId, clock, lastTranscriptionRef, hasLastTranscription,
                   snapshotVars, transcriberVars, audioData, editorVars, historyVars>>
    /\ UNCHANGED settingsVars

\* note.tags.filter(tag => tag !== tagToRemove)
RECURSIVE WithoutTag(_, _)
WithoutTag(tags, tagToRemove) ==
    IF tags = << >> THEN << >>
    ELSE IF Head(tags) = tagToRemove THEN WithoutTag(Tail(tags), tagToRemove)
         ELSE <<Head(tags)>> \o WithoutTag(Tail(tags), tagToRemove)

HandleRemoveTag(tagToRemove) ==
    /\ EditorShown
    /\ \E i \in 1..Len(rNote.tags) : rNote.tags[i] = tagToRemove
    /\ handleUpdateTags(rNote.id, WithoutTag(rNote.tags, tagToRemove))
    /\ RanSync("removeTag")
    /\ lastResult' = "ok"
    /\ UNCHANGED <<selectedNoteId, clock, lastTranscriptionRef, hasLastTranscription,
                   snapshotVars, transcriberVars, audioData, editorVars, historyVars>>
    /\ UNCHANGED settingsVars

\* App.handleSaveVersion(noteId, description)
handleSaveVersion(noteId, description) ==
    IF noteId \in Ids(rNotes)
    THEN LET note == Find(rNotes, noteId)
             newVersion == [content |-> note.content, timestamp |-> clock,
                            description |-> description]
         IN  handleUpdateNote([note EXCEPT !.versions = Append(note.versions, newVersion)])
    ELSE UNCHANGED <<notes, persisted>>

\* NoteEditor.handleSaveVersion with versionDescription = description
HandleSaveVersion(description) ==
    /\ EditorShown
    /\ Len(rNote.versions) < MaxVersions
    /\ RanSync("saveVersion")
    /\ IF Trim(description) # EmptyText
       THEN /\ handleSaveVersion(rNote.id, Trim(description))
            /\ lastResult' = "ok"
       ELSE /\ UNCHANGED <<notes, persisted>>
            /\ lastResult' = "ignored"
    /\ UNCHANGED <<selectedNoteId, clock, lastTranscriptionRef, hasLastTranscription,
                   snapshotVars, transcriberVars, audioData, editorVars, historyVars>>
    /\ UNCHANGED settingsVars

\* a restore that forgets the versions
handleRestoreVersionDroppingHistory(noteId, version) ==
    IF noteId \in Ids(rNotes)
    THEN handleUpdateNote([Find(rNotes, noteId) EXCEPT !.content = version.content,
                                                       !.versions = << >>])
    ELSE UNCHANGED <<notes, persisted>>

\* App.handleRestoreVersion(noteId, version)
handleRestoreVersion(noteId, version) ==
    IF noteId \in Ids(rNotes)
    THEN handleUpdateNote([Find(rNotes, noteId) EXCEPT !.content = version.content])
    ELSE UNCHANGED <<notes, persisted>>

\* the Restore button of the i-th version shown
HandleRestoreVersion(i) ==
    /\ EditorShown
    /\ i \in 1..Len(rNote.versions)
    /\ handleRestoreVersion(rNote.id, rNote.versions[i])
    /\ RanSync("restoreVersion")
    /\ lastResult' = "ok"
    /\ UNCHANGED <<selectedNoteId, clock, lastTranscriptionRef, hasLastTranscription,
                   snapshotVars, transcriberVars, audioData, editorVars, historyVars>>
    /\ UNCHANGED settingsVars

\* ------------------------------------------------------------ transcriber
\* transcriber.onInputChange(): "Reset transcriber state"
onInputChange ==
    /\ hasOutput' = FALSE
    /\ outputText' = EmptyText

\* transcriber.start(buffer): refused with SessionBusy while a session is
\* Transcribing, otherwise the session owns the buffer
start(buffer) ==
    IF isBusy
    THEN /\ lastResult' = "SessionBusy"
         /\ UNCHANGED <<isBusy, sessionBuffer, sessions, sessionMerged, pristine>>
    ELSE /\ lastResult' = "ok"
         /\ isBusy' = TRUE
         /\ sessionBuffer' = buffer
         /\ sessions' = sessions + 1
         /\ sessionMerged' = FALSE
         /\ pristine' = (pristine /\ sessions = 0)

\* an interim result: the whole transcript so far
Emit(text) ==
    /\ Ready
    /\ isBusy
    /\ hasOutput' = TRUE
    /\ outputText' = text
    /\ Ran("emit")
    /\ lastResult' = "ok"
    /\ UNCHANGED <<storeVars, snapshotVars, isBusy, sessionBuffer, sessions, audioData,
                   editorVars, historyVars>>
    /\ UNCHANGED settingsVars

\* the terminal result: the session returns to Ready and gives up its buffer
Complete(text) ==
    /\ Ready
    /\ isBusy
    /\ hasOutput' = TRUE
    /\ outputText' = text
    /\ isBusy' = FALSE
    /\ sessionBuffer' = 0
    /\ Ran("complete")
    /\ lastResult' = "ok"
    /\ UNCHANGED <<storeVars, snapshotVars, sessions, audioData, editorVars, historyVars>>
    /\ UNCHANGED settingsVars

\* ----------------------------------------------------------- AudioManager
HandleFileUpload(buffer) ==
    /\ Ready
    /\ onInputChange
    /\ audioData' = buffer
    /\ Ran("upload")
    /\ lastResult' = "ok"
    /\ UNCHANGED <<storeVars, snapshotVars, isBusy, sessionBuffer, sessions, editorVars,
                   historyVars>>
    /\ UNCHANGED settingsVars

HandleTranscribeClick ==
    /\ Ready
    /\ audioData # 0
    /\ sessions < MaxSessions
    /\ onInputChange
    /\ start(audioData)
    /\ RanSync("transcribeClick")
    /\ UNCHANGED <<storeVars, snapshotVars, audioData, editorVars>>
    /\ UNCHANGED settingsVars

\* App.handleTranscriptionComplete(text)
handleTranscriptionComplete(text) ==
    IF ~hasLastTranscription \/ text # lastTranscriptionRef
    THEN /\ lastTranscriptionRef' = text
         /\ hasLastTranscription' = TRUE
         /\ updateNotes(Append(rNotes, NewNote(IdOf(clock), "Transcribed Note", text)))
         /\ selectedNoteId' = IdOf(clock)
         /\ lastResult' = "ok"
    ELSE /\ UNCHANGED <<lastTranscriptionRef, hasLastTranscription, notes, persisted,
                        selectedNoteId>>
         /\ lastResult' = "duplicate"

\* the effect "Watch for transcription completion"
CompletionEffect ==
    /\ Ready
    /\ rHasOutput
    /\ ~isBusy
    /\ Len(rNotes) < MaxNotes
    /\ handleTranscriptionComplete(rOutput)
    /\ audioData' = 0
    /\ notedSession' = IF ~hasLastTranscription \/ rOutput # lastTranscriptionRef
                       THEN sessions ELSE notedSession
    /\ Ran("completionEffect")
    /\ UNCHANGED <<clock, snapshotVars, transcriberVars, editorVars, historyVars>>
    /\ UNCHANGED <<searchVars, modelVars, cleanVars, recorderVars, downloadVars,
                   summarizerVars>>

\* ------------------------------------------------------------- cleanText
\* a call cleanText(text)
CleanText(text) ==
    /\ rawDelta' = text
    /\ cleanedContent' = cleanText(text)
    /\ lastOp' = "cleanText"
    /\ lastResult' = "ok"
    /\ UNCHANGED <<appVars, searchVars, modelVars, recorderVars, downloadVars,
                   notedSession,
                   summarizerVars>>

\* ---------------------------------------------------------- AudioRecorder
\* React renders the AudioRecorder after a click on its button
RenderedRecorder ==
    /\ rIsRecording' = isRecording'
    /\ rMediaRecorder' = mediaRecorder'

\* the AudioRecorder renders the state set by a callback that was no click
RenderRecorder ==
    /\ <<rIsRecording, rMediaRecorder>> # <<isRecording, mediaRecorder>>
    /\ lastOp' = "renderRecorder"
    /\ lastResult' = "ok"
    /\ UNCHANGED <<isRecording, recordingTime, mediaRecorder, timeInterval, streamRef,
                   pendingMic, starts, liveStreams, liveRecorders, liveTimers>>
    /\ UNCHANGED <<appVars, searchVars, modelVars, cleanVars, downloadVars, notedSession,
                   summarizerVars>>
    /\ RenderedRecorder

\* a click on the button while it shows Start Recording: startRecording up
\* to its await of getUserMedia
StartRecording ==
    /\ ~rIsRecording
    /\ starts < MaxStarts
    /\ starts' = starts + 1
    /\ pendingMic' = pendingMic + 1
    /\ lastOp' = "startRecording"
    /\ lastResult' = "pending"
    /\ UNCHANGED <<isRecording, recordingTime, mediaRecorder, timeInterval, streamRef,
                   liveStreams, liveRecorders, liveTimers>>
    /\ UNCHANGED <<appVars, searchVars, modelVars, cleanVars, downloadVars, notedSession,
                   summarizerVars>>
    /\ RenderedRecorder

\* getUserMedia resolves with a new stream: the rest of startRecording's try block
MicrophoneGranted ==
    /\ pendingMic > 0
    /\ pendingMic' = pendingMic - 1
    /\ LET device == starts - pendingMic + 1
       IN  /\ streamRef' = device
           /\ liveStreams' = liveStreams \cup {device}
           /\ liveRecorders' = liveRecorders \cup {device}
           /\ mediaRecorder' = device
           /\ isRecording' = TRUE
           /\ timeInterval' = device
           /\ liveTimers' = liveTimers \cup {device}
    /\ lastOp' = "granted"
    /\ lastResult' = "ok"
    /\ UNCHANGED <<recordingTime, rIsRecording, rMediaRecorder, starts>>
    /\ UNCHANGED <<appVars, searchVars, modelVars, cleanVars, downloadVars, notedSession,
                   summarizerVars>>

\* getUserMedia rejects: startRecording's catch block logs the error and
\* startRecording returns
MicrophoneDenied ==
    /\ pendingMic > 0
    /\ pendingMic' = pendingMic - 1
    /\ lastOp' = "denied"
    /\ lastResult' = "logged"
    /\ UNCHANGED <<isRecording, recordingTime, mediaRecorder, timeInterval, streamRef,
                   rIsRecording, rMediaRecorder, starts, liveStreams, liveRecorders,
                   liveTimers>>
    /\ UNCHANGED <<appVars, searchVars, modelVars, cleanVars, downloadVars, notedSession,
                   summarizerVars>>

\* the callback of a live interval: setRecordingTime(prevTime => prevTime + 1)
TimerTick ==
    /\ liveTimers # {}
    /\ recordingTime < MaxRecordingTime
    /\ recordingTime' = recordingTime + 1
    /\ lastOp' = "timer"
    /\ lastResult' = "ok"
    /\ UNCHANGED <<isRecording, mediaRecorder, timeInterval, streamRef, rIsRecording,
                   rMediaRecorder, pendingMic, starts, liveStreams, liveRecorders,
                   liveTimers>>
    /\ UNCHANGED <<appVars, searchVars, modelVars, cleanVars, downloadVars, notedSession,
                   summarizerVars>>

\* a click on the button while it shows Stop Recording: stopRecording
StopRecording ==
    /\ rIsRecording
    /\ IF rMediaRecorder # 0 /\ rIsRecording
       THEN /\ liveRecorders' = liveRecorders \ {rMediaRecorder}
            /\ liveStreams' = liveStreams \ {streamRef}
            /\ isRecording' = FALSE
            /\ liveTimers' = liveTimers \ {timeInterval}
            /\ timeInterval' = 0
            /\ recordingTime' = 0
            /\ mediaRecorder' = 0
            /\ lastResult' = "ok"
       ELSE /\ UNCHANGED <<isRecording, recordingTime, mediaRecorder, timeInterval,
                           liveStreams, liveRecorders, liveTimers>>
            /\ lastResult' = "ignored"
    /\ lastOp' = "stopRecording"
    /\ UNCHANGED <<streamRef, pendingMic, starts>>
    /\ UNCHANGED <<appVars, searchVars, modelVars, cleanVars, downloadVars, notedSession,
                   summarizerVars>>
    /\ RenderedRecorder

\* ---------------------------------------------------- download from a URL
\* the requests whose axios.get has not settled
Unsettled == {r \in 1..Len(downloads) : downloads[r].state \in {"inflight", "aborted"}}

\* the cleanup of the effect on [audioDownloadUrl]: requestAbortController.abort()
\* for the request the effect made
Aborted(ds) ==
    [r \in 1..Len(ds) |->
        IF r = Len(ds) /\ ~ds[r].cancelled
        THEN [ds[r] EXCEPT !.cancelled = TRUE,
                           !.state = IF @ = "inflight" THEN "aborted" ELSE @]
        ELSE ds[r]]

\* UrlInput onChange: setAudioDownloadUrl(e.target.value); React renders,
\* cleans the effect of the old URL up and runs the effect of the new one,
\* which calls downloadAudioFromUrl up to its await
SetAudioDownloadUrl(url) ==
    /\ Ready
    /\ url # audioDownloadUrl
    /\ url # 0 => Len(downloads) < MaxDownloads
    /\ audioDownloadUrl' = url
    /\ IF url # 0
       THEN /\ audioData' = 0
            /\ isAudioLoading' = TRUE
            /\ downloads' = Append(Aborted(downloads),
                                   [url |-> url, state |-> "inflight", cancelled |-> FALSE])
       ELSE /\ downloads' = Aborted(downloads)
            /\ UNCHANGED <<audioData, isAudioLoading>>
    /\ RanSync("downloadUrl")
    /\ lastResult' = "ok"
    /\ UNCHANGED <<storeVars, snapshotVars, transcriberVars, editorVars, historyVars>>
    /\ UNCHANGED <<searchVars, modelVars, cleanVars, recorderVars, notedSession,
                   summarizerVars>>

\* axios onDownloadProgress of a request in flight
DownloadProgress(r) ==
    /\ r \in 1..Len(downloads)
    /\ downloads[r].state = "inflight"
    /\ ~isAudioLoading
    /\ isAudioLoading' = TRUE
    /\ lastOp' = "downloadProgress"
    /\ lastResult' = "ok"
    /\ UNCHANGED <<appVars, audioDownloadUrl, downloads>>
    /\ UNCHANGED <<searchVars, modelVars, cleanVars, recorderVars, notedSession,
                   summarizerVars>>

\* axios.get resolves: setAudioFromDownload starts decoding, then the finally block
DownloadDone(r) ==
    /\ r \in 1..Len(downloads)
    /\ downloads[r].state = "inflight"
    /\ downloads' = [downloads EXCEPT ![r].state = "decoding"]
    /\ isAudioLoading' = FALSE
    /\ lastOp' = "downloadDone"
    /\ lastResult' = "ok"
    /\ UNCHANGED <<appVars, audioDownloadUrl>>
    /\ UNCHANGED <<searchVars, modelVars, cleanVars, recorderVars, notedSession,
                   summarizerVars>>

\* axios.get rejects (aborted, or the network failed): the catch block logs,
\* then the finally block
DownloadFailed(r) ==
    /\ r \in Unsettled
    /\ downloads' = [downloads EXCEPT ![r].state = "failed"]
    /\ isAudioLoading' = FALSE
    /\ lastOp' = "downloadFailed"
    /\ lastResult' = "logged"
    /\ UNCHANGED <<appVars, audioDownloadUrl>>
    /\ UNCHANGED <<searchVars, modelVars, cleanVars, recorderVars, notedSession,
                   summarizerVars>>

\* setAudioFromDownload after decodeAudioData resolves: setAudioData
DecodeDone(r) ==
    /\ r \in 1..Len(downloads)
    /\ downloads[r].state = "decoding"
    /\ downloads' = [downloads EXCEPT ![r].state = "decoded"]
    /\ audioData' = UrlBuffer(r)
    /\ lastOp' = "decodeDone"
    /\ lastResult' = "ok"
    /\ UNCHANGED <<storeVars, snapshotVars, stale, transcriberVars, editorVars, historyVars,
                   audioDownloadUrl, isAudioLoading>>
    /\ UNCHANGED <<searchVars, modelVars, cleanVars, recorderVars, notedSession,
                   summarizerVars>>

\* ----------------------------------------------------------------- search
\* String.prototype.toLowerCase on one character
LowerChar(c) ==
    CASE c = "M" -> "m"
      [] c = "E" -> "e"
      [] c = "T" -> "t"
      [] c = "N" -> "n"
      [] c = "O" -> "o"
      [] OTHER -> c

toLowerCase(s) == [i \in 1..Len(s) |-> LowerChar(s[i])]

\* String.prototype.includes
includes(s, part) ==
    \E i \in 0..(Len(s) - Len(part)) : SubSeq(s, i + 1, i + Len(part)) = part

\* the characters of a title
TitleChars(title) ==
    CASE title = "t" -> <<"t">>
      [] title = "old" -> <<"o", "l", "d">>
      [] title = "New Note" -> <<"N", "e", "w", " ", "N", "o", "t", "e">>
      [] OTHER -> <<title>>

\* NoteList: onSearchChange={setSearchQuery}
SetSearchQuery(query) ==
    /\ Ready
    /\ query # searchQuery
    /\ searchQuery' = query
    /\ RanSync("search")
    /\ lastResult' = "ok"
    /\ UNCHANGED <<storeVars, snapshotVars, transcriberVars, audioData, editorVars,
                   historyVars, modelVars, cleanVars, recorderVars, downloadVars,
                   notedSession,
                   summarizerVars>>

\* App: filteredNotes
filteredNotes(ns, query) ==
    LET searchLower == toLowerCase(query)
        shown(note) ==
            \/ includes(toLowerCase(TitleChars(note.title)), searchLower)
            \/ includes(toLowerCase(note.content), searchLower)
            \/ \E i \in 1..Len(note.tags) : includes(toLowerCase(note.tags[i]), searchLower)
    IN  SelectSeq(ns, shown)

\* ------------------------------------------------------------ model choice
\* transcriber.setModel(modelId): refused with ModelSwapRejected while a
\* session is Transcribing
setModel(modelId) ==
    IF isBusy
    THEN /\ lastResult' = "ModelSwapRejected"
         /\ model' = model
    ELSE /\ lastResult' = "ok"
         /\ model' = modelId

\* transcriber.setMultilingual(value)
setMultilingual(value) ==
    multilingual' = value

\* a model change that leaves the language setting as it is
HandleModelChangeKeepingLanguage(modelId) ==
    /\ Ready
    /\ setModel(modelId)
    /\ UNCHANGED multilingual
    /\ RanSync("modelChange")
    /\ UNCHANGED <<storeVars, snapshotVars, transcriberVars, audioData, editorVars,
                   historyVars, searchVars, cleanVars, recorderVars, downloadVars,
                   notedSession, summarizerVars>>

\* AudioManager.handleModelChange(modelId)
HandleModelChange(modelId) ==
    /\ Ready
    /\ setModel(modelId)
    /\ LET isEnglishOnly == EndsWith(modelId, DotEn)
       IN  setMultilingual(~isEnglishOnly)
    /\ RanSync("modelChange")
    /\ UNCHANGED <<storeVars, snapshotVars, transcriberVars, audioData, editorVars,
                   historyVars, searchVars, cleanVars, recorderVars, downloadVars,
                   notedSession,
                   summarizerVars>>

\* ------------------------------------------------------------ useSummarizer
\* The hook lives in the NoteEditor.  pipeline(...) reports progress through
\* progress_callback while it loads the model, that is before its promise
\* settles; summarizer(text, ...) reports none.
ProgressData == {1, 2}
SummaryTexts == {1, 2}
UnmountedVars == <<searchVars, modelVars, cleanVars, recorderVars, downloadVars, notedSession>>

\* editor.getContent({ format: 'text' }): the document without its markup
RECURSIVE TextFrom(_, _)
TextFrom(doc, inTag) ==
    IF doc = << >> THEN << >>
    ELSE IF inTag THEN TextFrom(Tail(doc), Head(doc) # ">")
    ELSE IF Head(doc) = "<" THEN TextFrom(Tail(doc), TRUE)
    ELSE <<Head(doc)>> \o TextFrom(Tail(doc), FALSE)

\* the NoteEditor renders the hook state set by a callback that was no click
RenderSummarizer ==
    /\ rIsLoading # isLoading
    /\ rIsLoading' = isLoading
    /\ lastOp' = "renderSummarizer"
    /\ lastResult' = "ok"
    /\ UNCHANGED <<isLoading, progress, summary, loading, running, runs, lastRun>>
    /\ UNCHANGED <<appVars, UnmountedVars>>

\* a click on AI Summary (disabled={isLoading}): handleSummarize, and summarize
\* up to its await of pipeline(...)
HandleSummarize ==
    /\ EditorShown
    /\ ~rIsLoading
    /\ editorRef
    /\ runs < MaxRuns
    /\ IF Trim(TextFrom(editorDoc, FALSE)) # EmptyText
       THEN /\ isLoading' = TRUE
            /\ summary' = 0
            /\ loading' = loading + 1
            /\ runs' = runs + 1
            /\ lastResult' = "pending"
       ELSE /\ UNCHANGED <<isLoading, summary, loading, runs>>
            /\ lastResult' = "nothing"
    /\ rIsLoading' = isLoading'
    /\ RanSync("summarize")
    /\ UNCHANGED <<progress, running, lastRun>>
    /\ UNCHANGED <<storeVars, snapshotVars, transcriberVars, audioData, editorVars, historyVars,
                   UnmountedVars>>

\* progress_callback: setProgress(data)
ProgressCallback(data) ==
    /\ loading > 0
    /\ progress' = data
    /\ lastOp' = "progress"
    /\ lastResult' = "ok"
    /\ UNCHANGED <<isLoading, summary, rIsLoading, loading, running, runs, lastRun>>
    /\ UNCHANGED <<appVars, UnmountedVars>>

\* pipeline(...) resolves: summarizer(text, ...) is called and awaited
PipelineLoaded ==
    /\ loading > 0
    /\ loading' = loading - 1
    /\ running' = running + 1
    /\ lastOp' = "loaded"
    /\ lastResult' = "ok"
    /\ UNCHANGED <<isLoading, progress, summary, rIsLoading, runs, lastRun>>
    /\ UNCHANGED <<appVars, UnmountedVars>>

\* a finally block that ends the loading and leaves the last progress report
FinallyKeepingProgress ==
    /\ isLoading' = FALSE
    /\ progress' = progress

\* finally { setIsLoading(false); setProgress(null); }
Finally ==
    /\ isLoading' = FALSE
    /\ progress' = 0

\* summarizer(...) resolves: setSummary(output[0].summary_text), then finally
SummarizerDone(text) ==
    /\ running > 0
    /\ running' = running - 1
    /\ summary' = text
    /\ Finally
    /\ lastRun' = "ok"
    /\ lastOp' = "summarized"
    /\ lastResult' = "ok"
    /\ UNCHANGED <<rIsLoading, loading, runs>>
    /\ UNCHANGED <<appVars, UnmountedVars>>

\* pipeline(...) rejects: catch logs and rethrows, then finally
PipelineFailed ==
    /\ loading > 0
    /\ loading' = loading - 1
    /\ Finally
    /\ lastRun' = "threw"
    /\ lastOp' = "pipelineFailed"
    /\ lastResult' = "threw"
    /\ UNCHANGED <<summary, rIsLoading, running, runs>>
    /\ UNCHANGED <<appVars, UnmountedVars>>

\* summarizer(...) rejects: catch logs and rethrows, then finally
SummarizerFailed ==
    /\ running > 0
    /\ running' = running - 1
    /\ Finally
    /\ lastRun' = "threw"
    /\ lastOp' = "summarizerFailed"
    /\ lastResult' = "threw"
    /\ UNCHANGED <<summary, rIsLoading, loading, runs>>
    /\ UNCHANGED <<appVars, UnmountedVars>>

\* TextSummary (on the page while loading or with a summary): onClose={clearSummary}
ClearSummary ==
    /\ EditorShown
    /\ rIsLoading \/ summary # 0
    /\ summary' = 0
    /\ RanSync("clearSummary")
    /\ lastResult' = "ok"
    /\ UNCHANGED <<isLoading, progress, rIsLoading, loading, running, runs, lastRun>>
    /\ UNCHANGED <<storeVars, snapshotVars, transcriberVars, audioData, editorVars, historyVars,
                   UnmountedVars>>

\* ------------------------------------------------------------------- Next
\* the note store: App, NoteList and the NoteEditor's note handlers
Next ==
    \/ Tick
    \/ Render
    \/ HandleCreateNote
    \/ \E id \in Ids(rNotes) : HandleDeleteNote(id)
    \/ \E id \in Ids(rNotes) : SelectNote(id)
    \/ \E f \in FileChoices \cup {ExportedText} : HandleImportNotes(f)
    \/ \E t \in TitleInputs : HandleTitleChange(t)
    \/ \E tag \in TagInputs : HandleAddTag(tag)
    \/ \E tag \in TagInputs : HandleRemoveTag(tag)
    \/ \E d \in DescriptionInputs : HandleSaveVersion(d)
    \/ \E i \in 1..MaxVersions : HandleRestoreVersion(i)

Spec == Init /\ [][Next]_vars

\* note ids: notes are created by hand and by completed transcriptions, and
\* deleted; the store starts empty
InitIds ==
    /\ Init
    /\ persisted = AbsentText

NextIds ==
    \/ Tick
    \/ Render
    \/ HandleCreateNote
    \/ \E id \in Ids(rNotes) : HandleDeleteNote(id)
    \/ \E b \in Buffers : HandleFileUpload(b)
    \/ HandleTranscribeClick
    \/ \E t \in Transcripts : Complete(t)
    \/ CompletionEffect

SpecIds == InitIds /\ [][NextIds]_vars

\* search: two stored notes are retitled, retagged and deleted while the user
\* types queries
InitSearch == InitFrom(SearchText)

NextSearch ==
    \/ Render
    \/ \E query \in Queries : SetSearchQuery(query)
    \/ \E id \in Ids(rNotes) : SelectNote(id)
    \/ \E id \in Ids(rNotes) : HandleDeleteNote(id)
    \/ \E newTitle \in TitleInputs : HandleTitleChange(newTitle)
    \/ \E tagInput \in TagInputs : HandleAddTag(tagInput)
    \/ \E tag \in TagInputs : HandleRemoveTag(tag)

SpecSearch == InitSearch /\ [][NextSearch]_vars

\* the tags shown on the open note, each with its remove button
TagsShown ==
    IF rSelected \in Ids(rNotes) THEN {rNote.tags[i] : i \in 1..Len(rNote.tags)} ELSE {}

\* tagging: tags are added to and removed from two stored notes
NextTags ==
    \/ Render
    \/ \E id \in Ids(rNotes) : SelectNote(id)
    \/ \E tagInput \in MoreTagInputs : HandleAddTag(tagInput)
    \/ \E tagToRemove \in TagsShown : HandleRemoveTag(tagToRemove)

SpecTags == InitSearch /\ [][NextTags]_vars

\* model choice: the model is changed while audio is uploaded and transcribed
NextModel ==
    \/ Render
    \/ \E b \in Buffers : HandleFileUpload(b)
    \/ HandleTranscribeClick
    \/ \E t \in Transcripts : Emit(t)
    \/ \E t \in Transcripts : Complete(t)
    \/ \E modelId \in ModelIds : HandleModelChange(modelId)

SpecModel == Init /\ [][NextModel]_vars

\* cleanText is called with every delta of up to MaxDelta characters
NextClean ==
    \E text \in DeltaTexts : CleanText(text)

SpecClean == Init /\ [][NextClean]_vars

\* recording: the button is clicked while microphone requests are answered
\* and the timer runs
NextRecorder ==
    \/ StartRecording
    \/ MicrophoneGranted
    \/ MicrophoneDenied
    \/ RenderRecorder
    \/ TimerTick
    \/ StopRecording

SpecRecorder == Init /\ [][NextRecorder]_vars

\* download: the URL is typed, replaced and cleared while requests run
NextDownload ==
    \/ Render
    \/ \E url \in Urls : SetAudioDownloadUrl(url)
    \/ \E r \in 1..MaxDownloads : DownloadProgress(r)
    \/ \E r \in 1..MaxDownloads : DownloadDone(r)
    \/ \E r \in 1..MaxDownloads : DownloadFailed(r)
    \/ \E r \in 1..MaxDownloads : DecodeDone(r)

SpecDownload == Init /\ [][NextDownload]_vars

\* the application started with one note in the store
InitStored ==
    /\ Init
    /\ persisted = LegacyText


\* summaries of the open note: the note is selected and edited, and AI Summary
\* is clicked; one NoteEditor stays on the page
NextSummarizer ==
    \/ Render
    \/ \E id \in Ids(rNotes) : SelectNote(id)
    \/ EditorInit
    \/ \E newContent \in ContentInputs : HandleEditorChange(newContent)
    \/ RenderSummarizer
    \/ HandleSummarize
    \/ \E data \in ProgressData : ProgressCallback(data)
    \/ PipelineLoaded
    \/ PipelineFailed
    \/ \E text \in SummaryTexts : SummarizerDone(text)
    \/ SummarizerFailed
    \/ ClearSummary

SpecSummarizer == InitStored /\ [][NextSummarizer]_vars
\* export and import: notes are created, tagged and versioned, exported and
\* imported
NextPorting ==
    \/ Tick
    \/ Render
    \/ HandleCreateNote
    \/ \E f \in FileChoices \cup {ExportedText} : HandleImportNotes(f)
    \/ \E tag \in TagInputs : HandleAddTag(tag)
    \/ \E d \in DescriptionInputs : HandleSaveVersion(d)

SpecPorting == InitStored /\ [][NextPorting]_vars

\* the open note is edited, tagged, versioned and restored while transcripts
\* arrive
NextVersions ==
    \/ Tick
    \/ Render
    \/ \E id \in Ids(rNotes) : SelectNote(id)
    \/ EditorInit
    \/ \E c \in ContentInputs : HandleEditorChange(c)
    \/ \E t \in TitleInputs : HandleTitleChange(t)
    \/ \E tag \in TagInputs : HandleAddTag(tag)
    \/ \E d \in DescriptionInputs : HandleSaveVersion(d)
    \/ \E i \in 1..MaxVersions : HandleRestoreVersion(i)
    \/ \E b \in Buffers : HandleFileUpload(b)
    \/ HandleTranscribeClick
    \/ \E t \in Transcripts : Complete(t)
    \/ HandleTranscriptionUpdate

SpecVersions == InitStored /\ [][NextVersions]_vars

NextMerge ==
    \/ Render
    \/ \E id \in Ids(rNotes) : SelectNote(id)
    \/ EditorInit
    \/ HandleTranscriptionUpdate
    \/ \E pos \in {0, Len(editorDoc)} : MoveCursor(pos)
    \/ \E b \in Buffers : HandleFileUpload(b)
    \/ HandleTranscribeClick
    \/ \E t \in Transcripts : Emit(t)
    \/ \E t \in Transcripts : Complete(t)
    \/ CompletionEffect

\* transcription into the open note
SpecMerge == InitStored /\ [][NextMerge]_vars

\* =================================================================== claims
\* the text with its whitespace removed
RECURSIVE Squeeze(_)
Squeeze(s) ==
    IF s = EmptyText THEN s
    ELSE IF Head(s) \in Whitespace THEN Squeeze(Tail(s))
         ELSE <<Head(s)>> \o Squeeze(Tail(s))

\* the document after the whole transcript t went in at the caret, with or
\* without a separating space
FullInsertions(t) ==
    {InsertAt(editorDoc, cursor, cleanText(t)),
     InsertAt(editorDoc, cursor, <<Space>> \o cleanText(t))}

\* C1: a Transcribe click while a session is Transcribing returns SessionBusy
\* and leaves the session's audio buffer, its output so far and its busy flag
\* as they were.
C1_BusyStartLeavesSessionUntouched ==
    [][(isBusy /\ HandleTranscribeClick) =>
         /\ lastResult' = "SessionBusy"
         /\ UNCHANGED <<isBusy, sessionBuffer, hasOutput, outputText>>]_vars

\* C2: while the emissions of the one session each extend the previous one, the
\* document started empty and the user has not edited, the document has no
\* leading space and holds the text of the last transcript merged, nothing
\* duplicated and nothing dropped.
C2_MergedTextIsTranscript ==
    pristine =>
        /\ (editorDoc = EmptyText \/ editorDoc[1] \notin Whitespace)
        /\ Squeeze(editorDoc) = Squeeze(lastTranscriptRef)

\* C3: handleTranscriptionUpdate called with a transcript equal to
\* lastTranscriptRef changes neither the document, nor the stored notes, nor
\* lastTranscriptRef.
C3_DuplicateEmissionIsNoOp ==
    [][(HandleTranscriptionUpdate /\ rOutput = lastTranscriptRef) =>
         UNCHANGED <<editorDoc, cursor, notes, persisted, lastTranscriptRef>>]_vars

\* C3 witness: an emission was merged into the document and was then replayed.
C3_Witness ==
    /\ lastOp = "transcriptUpdate"
    /\ lastResult = "duplicate"
    /\ editorDoc # EmptyText
    /\ lastTranscriptRef # EmptyText

\* C4: a transcript that does not start with lastTranscriptRef goes into the
\* document whole.
C4_TruncationInsertsWholeTranscript ==
    [][(HandleTranscriptionUpdate /\ editorRef /\ rOutput # lastTranscriptRef
            /\ ~StartsWith(rOutput, lastTranscriptRef)) =>
         editorDoc' \in FullInsertions(rOutput)]_vars

\* C5: the first emission of a session that the merger takes goes into the
\* document whole, whatever lastTranscriptRef was left by the session before.
C5_FirstEmissionInsertedInFull ==
    [][(HandleTranscriptionUpdate /\ editorRef /\ ~sessionMerged
            /\ hasOutput /\ outputText = rOutput) =>
         editorDoc' \in FullInsertions(rOutput)]_vars

\* s is an initial segment of t
IsPrefix(s, t) == Len(s) <= Len(t) /\ SubSeq(t, 1, Len(s)) = s

\* a step of one of the operations on the open note: a title or content edit,
\* a transcript insertion, a tag change, saveVersion or restoreVersion
NoteEdit ==
    \/ \E newTitle \in TitleInputs : HandleTitleChange(newTitle)
    \/ \E newContent \in ContentInputs : HandleEditorChange(newContent)
    \/ HandleTranscriptionUpdate
    \/ \E tagInput \in TagInputs : HandleAddTag(tagInput)
    \/ \E tag \in {<<"x">>} : HandleRemoveTag(tag)
    \/ \E description \in DescriptionInputs : HandleSaveVersion(description)
    \/ \E i \in 1..MaxVersions : HandleRestoreVersion(i)

C7_TitleUpdateKeepsOtherFields ==
    [][(\E newTitle \in TitleInputs : HandleTitleChange(newTitle)) =>
         \A id \in Ids(notes) \cap Ids(notes') :
            /\ Find(notes', id).tags = Find(notes, id).tags
            /\ Find(notes', id).versions = Find(notes, id).versions
            /\ Find(notes', id).content = Find(notes, id).content]_vars

\* the operations that store a new note list
MutatingOps ==
    {"create", "delete", "import", "title", "addTag", "removeTag", "saveVersion",
     "restoreVersion"}

\* C8: when an operation has stored a new note list, the text under 'notes' is
\* the serialization of the list in memory.
C8_PersistedMirrorsNotes ==
    (lastOp \in MutatingOps /\ lastResult = "ok") => persisted = Stringify(notes, 0)

\* C8 witness: an import replaced the list by a list of two notes.
C8_Witness ==
    /\ lastOp = "import"
    /\ lastResult = "ok"
    /\ Len(notes) = 2
    /\ persisted = Stringify(notes, 0)

\* C9: importing the text that export produces gives the exported note list
\* back: same notes, same fields, same order.
C9_ImportOfExportIsIdentity ==
    [][(lastOp' = "import" /\ HandleImportNotes(ExportedText)) => notes' = rNotes]_vars

\* C9 witness: an import gave back two notes, one of them with a tag.
C9_Witness ==
    /\ lastOp = "import"
    /\ lastResult = "ok"
    /\ notes = rNotes
    /\ Len(notes) = 2
    /\ \E i \in 1..Len(notes) : notes[i].tags # << >>

\* ns is parsed with the missing tags and versions fields set to empty lists
\* and every field that parsed has left as it is
MigratedFrom(ns, parsed) ==
    /\ Len(ns) = Len(parsed)
    /\ \A i \in 1..Len(parsed) :
        /\ DOMAIN ns[i] = DOMAIN parsed[i] \cup {"tags", "versions"}
        /\ \A k \in DOMAIN parsed[i] : ns[i][k] = parsed[i][k]
        /\ \A k \in {"tags", "versions"} \ DOMAIN parsed[i] : ns[i][k] = << >>

\* C10: the notes loaded at startup, and the notes of a successful import, are
\* the parsed records with a missing tags or versions field set to an empty
\* list; every field a record has, tags and versions included, is kept.
C10_MigrationFillsMissingFields ==
    [][/\ (lastOp = "init" /\ persisted.kind = "array") =>
             MigratedFrom(notes, Parse(persisted))
       /\ \A f \in FileChoices \cup {ExportedText} :
             (lastOp' = "import" /\ lastResult' = "ok" /\ HandleImportNotes(f)) =>
                 MigratedFrom(notes', Parse(f))]_vars

\* C10 witness: the record with tags and no versions field was imported.
C10_Witness ==
    /\ lastOp = "import"
    /\ lastResult = "ok"
    /\ Len(notes) = 1
    /\ notes[1].tags = << <<"x">> >>
    /\ notes[1].versions = << >>
    /\ rNotes # notes

\* C11: no two notes of the store share an id.
C11_NoteIdsUnique ==
    \A i, j \in 1..Len(notes) : i # j => notes[i].id # notes[j].id


\* C12: every note of the store has a created and a lastEdited time, and
\* lastEdited is not before created.
C12_TimestampsOrdered ==
    \A i \in 1..Len(notes) :
        /\ {"created", "lastEdited"} \subseteq DOMAIN notes[i]
        /\ notes[i].lastEdited >= notes[i].created


\* C13: a title or content edit, transcript insertion, tag change, saveVersion
\* or restoreVersion for a note whose id is not in the store leaves the note
\* list and the stored text as they are.
C13_UpdateOfAbsentIdChangesNothing ==
    [][(rSelected \notin Ids(notes) /\ NoteEdit) => UNCHANGED <<notes, persisted>>]_vars



\* the stored note with the id shown in the editor
Stored(id) == Find(notes, id)

\* C14: saveVersion with a blank description appends nothing; with a non-blank
\* description it appends exactly one version to the open note, and the
\* content of that version is the content the stored note has at the call.
C14_SaveVersionAppendsCurrentContent ==
    [][\A d \in DescriptionInputs :
          (rSelected \in Ids(notes) /\ HandleSaveVersion(d)) =>
              IF Trim(d) = EmptyText
              THEN UNCHANGED <<notes, persisted>>
              ELSE /\ rSelected \in Ids(notes')
                   /\ LET before == Stored(rSelected).versions
                          after == Find(notes', rSelected).versions
                      IN  /\ Len(after) = Len(before) + 1
                          /\ SubSeq(after, 1, Len(before)) = before
                          /\ after[Len(after)].content = Stored(rSelected).content]_vars


\* C15: after the i-th version shown is restored, the stored note has that
\* version's content, and the title, tags and versions it had before: no
\* version is created.
C15_RestoreSetsContentOnly ==
    [][\A i \in 1..MaxVersions :
          (rSelected \in Ids(notes) /\ HandleRestoreVersion(i)) =>
              /\ rSelected \in Ids(notes')
              /\ LET before == Stored(rSelected)
                     after == Find(notes', rSelected)
                 IN  /\ after.content = rNote.versions[i].content
                     /\ after.title = before.title
                     /\ after.tags = before.tags
                     /\ after.versions = before.versions]_vars


\* C16: deleting the note with a stored id removes that one note and leaves
\* every other note of the store as it was and in the same order.
C16_DeleteRemovesThatNoteOnly ==
    [][\A id \in Ids(notes) :
          HandleDeleteNote(id) =>
              /\ notes' = FilterOut(notes, id)
              /\ Len(notes') = Len(notes) - 1]_vars


\* the visible text of a content: markup (<...>) left out
RECURSIVE PlainText(_, _)
PlainText(content, inTag) ==
    IF content = EmptyText THEN EmptyText
    ELSE IF Head(content) = "<" THEN PlainText(Tail(content), TRUE)
    ELSE IF Head(content) = ">" /\ inTag THEN PlainText(Tail(content), FALSE)
    ELSE IF inTag THEN PlainText(Tail(content), TRUE)
    ELSE <<Head(content)>> \o PlainText(Tail(content), FALSE)

\* the note's title, visible text or one of its tags contains the query, case ignored
Matches(note, query) ==
    \/ includes(toLowerCase(TitleChars(note.title)), toLowerCase(query))
    \/ includes(toLowerCase(PlainText(note.content, FALSE)), toLowerCase(query))
    \/ \E i \in 1..Len(note.tags) : includes(toLowerCase(note.tags[i]), toLowerCase(query))

\* C17: the notes shown for a query are exactly the stored notes whose title,
\* plain-text content (markup left out) or one of whose tags contains the
\* query, case ignored.
C17_SearchMatchesTitlePlainTextOrTag ==
    filteredNotes(notes, searchQuery) = SelectSeq(notes, LAMBDA note : Matches(note, searchQuery))


\* no tag list of the store has a tag twice or an empty tag
TagsClean ==
    \A n \in 1..Len(notes) :
        \A i \in 1..Len(notes[n].tags) :
            /\ notes[n].tags[i] # EmptyText
            /\ \A j \in 1..Len(notes[n].tags) : i # j => notes[n].tags[i] # notes[n].tags[j]

\* C18: under addTag and removeTag no tag list ever has a duplicate (case
\* matters) or an empty tag; adding a tag the note has changes nothing;
\* removing a tag takes that one tag out and leaves the others in order.
C18_TagListStaysClean ==
    /\ []TagsClean
    /\ [][\A tagInput \in MoreTagInputs :
            (/\ HandleAddTag(tagInput)
             /\ \E i \in 1..Len(rNote.tags) : rNote.tags[i] = Trim(tagInput))
            => UNCHANGED <<notes, persisted>>]_vars
    /\ [][\A tagToRemove \in TagsShown :
            HandleRemoveTag(tagToRemove) =>
                LET before == Stored(rSelected).tags
                    after == Find(notes', rSelected).tags
                IN  /\ after = SelectSeq(before, LAMBDA tag : tag # tagToRemove)
                    /\ Len(after) = Len(before) - 1]_vars

\* C18 witness: a note has the tags "x" and "X", and adding a tag it has was
\* ignored.
C18_Witness ==
    /\ lastOp = "addTag"
    /\ lastResult = "ignored"
    /\ rSelected \in Ids(notes)
    /\ \E i, j \in 1..Len(Stored(rSelected).tags) :
          /\ Stored(rSelected).tags[i] = <<"x">>
          /\ Stored(rSelected).tags[j] = <<"X">>


\* C19: a model change while a session is Transcribing is rejected with
\* ModelSwapRejected and leaves the active model and the multilingual setting
\* as they are.
C19_BusyModelSwapRejected ==
    [][\A modelId \in ModelIds :
          (isBusy /\ HandleModelChange(modelId)) =>
              /\ lastResult' = "ModelSwapRejected"
              /\ UNCHANGED <<model, multilingual>>]_vars


\* the document needs a separator before appended text
NeedsSeparator(doc) == doc # EmptyText /\ doc[Len(doc)] \notin Whitespace

\* C20: an insertion puts one space before the delta exactly when the document
\* is non-empty and does not end in whitespace, and no space otherwise.
C20_SeparatorOnlyWhenNeeded ==
    [][(HandleTranscriptionUpdate /\ lastResult' = "inserted") =>
         LET delta == cleanText(Slice(rOutput, Len(lastTranscriptRef)))
             separator == IF NeedsSeparator(editorDoc) THEN <<Space>> ELSE EmptyText
         IN  editorDoc' = InsertAt(editorDoc, cursor, separator \o delta)]_vars


\* C21: the normalized delta has no two whitespace characters in a row, no
\* whitespace right before one of . , ! ? and exactly one space between each
\* of . , ! ? and the character that follows it.
C21_NormalizedDeltaIsTight ==
    \A i \in 1..(Len(cleanedContent) - 1) :
        /\ ~(cleanedContent[i] \in Whitespace /\ cleanedContent[i + 1] \in Whitespace)
        /\ ~(cleanedContent[i] \in Whitespace /\ cleanedContent[i + 1] \in Punct)
        /\ cleanedContent[i] \in Punct =>
              /\ cleanedContent[i + 1] = Space
              /\ i + 2 <= Len(cleanedContent) => cleanedContent[i + 2] \notin Whitespace


\* C22: when the microphone is denied, startRecording fails with
\* PermissionDenied, and a recorder that was not recording stays so, with no
\* stream, no media recorder and no timer.
C22_DeniedStartSignalsAndStaysIdle ==
    [][MicrophoneDenied =>
         /\ lastResult' = "PermissionDenied"
         /\ ~isRecording => (/\ ~isRecording'
                             /\ mediaRecorder' = 0
                             /\ timeInterval' = 0
                             /\ UNCHANGED <<liveStreams, liveRecorders, liveTimers>>)]_vars


\* at most one stream, one media recorder and one timer are live
OneRecordingAtMost ==
    /\ Cardinality(liveStreams) <= 1
    /\ Cardinality(liveRecorders) <= 1
    /\ Cardinality(liveTimers) <= 1

\* C28: whatever the order of Start and Stop clicks and microphone answers, at
\* most one stream, one media recorder and one timer are live, and after
\* stopRecording no stream or timer started earlier is live and
\* recordingTime is 0.
C28_OneRecordingAndCleanStop ==
    /\ OneRecordingAtMost
    /\ (lastOp = "stopRecording" /\ lastResult = "ok") =>
           /\ liveStreams \subseteq (starts - pendingMic + 1)..starts
           /\ liveTimers \subseteq (starts - pendingMic + 1)..starts
           /\ recordingTime = 0


\* C23: once no request is in flight the progress indicator is idle; it is not
\* idle while the request of the current URL is in flight; and the current
\* audio never comes from a request that was cancelled.
C23_CancelledDownloadLeavesNoTrace ==
    /\ Unsettled = {} => ~isAudioLoading
    /\ (\E r \in 1..Len(downloads) : downloads[r].state = "inflight") => isAudioLoading
    /\ \A r \in 1..Len(downloads) : audioData = UrlBuffer(r) => ~downloads[r].cancelled


\* C24: the completion effect makes the result of a completed transcription
\* a note once: its first run for the result adds one note holding the text,
\* its later runs for the same result add nothing.
C24_OneNotePerCompletedTranscription ==
    [][CompletionEffect =>
         IF notedSession # sessions
         THEN /\ Len(notes') = Len(notes) + 1
              /\ notes'[Len(notes')].content = rOutput
         ELSE UNCHANGED notes]_vars


\* C25: selectedNoteId is null or the id of a note of the store.
C25_SelectionIsStored ==
    selectedNoteId = NoId \/ selectedNoteId \in Ids(notes)


\* text is an array of objects each carrying id, title and content
IsNoteArray(text) ==
    /\ text.kind = "array"
    /\ text.nulls = {}
    /\ \A i \in 1..Len(text.items) :
          \A k \in {"id", "title", "content"} :
             \E j \in 1..Len(text.items[i]) : text.items[i][j][1] = k

\* C26: an import of a file that is not an array of objects each carrying id,
\* title and content (unparseable text, a value that is no array, an array with
\* null in it, an object short of a key) leaves the note list and the persisted
\* text as they were.
C26_InvalidImportChangesNothing ==
    [][\A f \in FileChoices \cup {ExportedText} :
          (~IsNoteArray(f) /\ HandleImportNotes(f)) => UNCHANGED <<notes, persisted>>]_vars

\* C26 witness: the file with a null after a well-formed note was refused while
\* notes were stored.
C26_Witness ==
    /\ lastOp = "import"
    /\ lastResult = "Error importing notes"
    /\ notes # << >>
    /\ persisted = Stringify(notes, 0)


\* C27: every transcript the merger takes as new becomes lastTranscriptRef,
\* with an editor to insert into or without one; and a transcript taken with
\* no editor stays out of the document: so long as lastTranscriptRef still
\* starts with it, an insertion puts in only text that lies behind it in the
\* new transcript.
C27_MissedDeltaIsNeverInserted ==
    [][HandleTranscriptionUpdate =>
          /\ rOutput # lastTranscriptRef => lastTranscriptRef' = rOutput
          /\ (lastResult' = "inserted" /\ missed # EmptyText
                  /\ StartsWith(lastTranscriptRef, missed)) =>
                \E k \in Len(missed)..(Len(missed) + Len(rOutput)) :
                    editorDoc' = InsertAt(editorDoc, cursor,
                                          <<Space>> \o cleanText(Slice(rOutput, k)))]_vars

\* C27 witness: a transcript came before the editor was initialised, and the
\* longer transcript that followed has been inserted without it.
C27_Witness ==
    /\ lastOp = "transcriptUpdate"
    /\ lastResult = "inserted"
    /\ missed # EmptyText
    /\ StartsWith(lastTranscriptRef, missed)
    /\ Len(lastTranscriptRef) > Len(missed)
    /\ Len(editorDoc) < Len(lastTranscriptRef)


\* C29: once a summarize call has finished, by success or by a throw, isLoading
\* is false and progress is null, and they stay so while no call is under way;
\* summary is null while a call is under way, and null after a call that threw
\* until a later call succeeds.
C29_SummarizeEndsClean ==
    /\ lastOp \in {"summarized", "pipelineFailed", "summarizerFailed"} =>
          (~isLoading /\ progress = 0)
    /\ (loading + running = 0) => (~isLoading /\ progress = 0)
    /\ (loading + running > 0) => summary = 0
    /\ lastRun = "threw" => summary = 0

\* C29 witness: two calls were made, none is under way, and the one that
\* finished last threw.
C29_Witness ==
    /\ lastOp = "summarizerFailed"
    /\ runs = 2
    /\ loading + running = 0
    /\ lastRun = "threw"
    /\ summary = 0


\* C30: for every model of the catalog, the multilingual setting that a change
\* to that model applies is the negation of the model's isEnglishOnly flag.
C30_MultilingualMatchesCatalog ==
    [][\A i \in DOMAIN modelOptions :
          HandleModelChange(modelOptions[i].id) =>
              multilingual' = ~modelOptions[i].isEnglishOnly]_vars

\* C30 witness: large-v2, whose id has no language suffix, was chosen and the
\* setting, off at the start, is on.
C30_Witness ==
    /\ lastOp = "modelChange"
    /\ lastResult = "ok"
    /\ model = <<"Xenova/whisper-large", "-", "v", "2">>
    /\ multilingual

====
